---------------------------- MODULE Spec2Model ----------------------------
(***************************************************************************)
(* Semantic search service of the A2A registry (src/semantic-search):      *)
(* the agent_embeddings table and its foreign key to registry_entries,     *)
(* the handlers semantic_search, index_agent and index_all_agents, and     *)
(* the text composition and scoring they rest on.                          *)
(*                                                                         *)
(* Scores are integers in units of 10^-5, so that the 4-decimal rounding   *)
(* of the search handler is a real conversion.  Embedding vectors are unit *)
(* vectors in the plane, named by their angle in steps of 30 degrees.      *)
(***************************************************************************)
EXTENDS Integers, Sequences, FiniteSets, TLC

(***************************************************************************)
(* Bounds of the model.                                                    *)
(***************************************************************************)
NumAgents == 2
MaxWrites == 3
MaxTopK == 2
NumCallers == 3
NumTasks == 2

AgentIds == 1..NumAgents

(***************************************************************************)
(* Python values.                                                          *)
(***************************************************************************)
None == "<None>"

Truthy(v) == v # None /\ v # ""

Str(v) == IF v = None THEN "None" ELSE v

\* d.get(key, default)
Get(d, key, default) == IF key \in DOMAIN d THEN d[key] ELSE default

RECURSIVE Join(_, _)
Join(parts, sep) ==
    IF parts = <<>> THEN ""
    ELSE IF Len(parts) = 1 THEN parts[1]
    ELSE parts[1] \o sep \o Join(Tail(parts), sep)

UpperCase == "ABCDEFGHIJKLMNOPQRSTUVWXYZ"

LowerCase == "abcdefghijklmnopqrstuvwxyz"

\* The lower-case letter of every upper-case letter.
ToLower ==
    [ch \in {SubSeq(UpperCase, k, k) : k \in 1..Len(UpperCase)} |->
        LET k == CHOOSE j \in 1..Len(UpperCase) : SubSeq(UpperCase, j, j) = ch
        IN  SubSeq(LowerCase, k, k)]

LowerChar(ch) == IF ch \in DOMAIN ToLower THEN ToLower[ch] ELSE ch

\* str.lower()
RECURSIVE Lower(_)
Lower(str) ==
    IF str = "" THEN ""
    ELSE LowerChar(SubSeq(str, 1, 1)) \o Lower(SubSeq(str, 2, Len(str)))

\* part in str: the empty string is in every string.
Contains(part, str) ==
    \E k \in 1..(Len(str) - Len(part) + 1) :
        SubSeq(str, k, k + Len(part) - 1) = part

(***************************************************************************)
(* Agent cards, tag lists and queries the requests are drawn from.         *)
(***************************************************************************)
TranslatorCard ==
    [name |-> "translator-agent",
     description |-> "Translates text",
     skills |-> <<[name |-> "translate", description |-> None]>>]

ForecastCard ==
    [name |-> "forecast", description |-> None, skills |-> <<>>]

\* The registry entry of an agent: its card, tags and verified flag.
RegistrationOf(a) ==
    IF a % 2 = 1
    THEN [agent_card |-> TranslatorCard, tags |-> <<"nlp">>, verified |-> TRUE]
    ELSE [agent_card |-> ForecastCard, tags |-> <<>>, verified |-> FALSE]

Registrations(a) == {RegistrationOf(a)}

IndexInputs ==
    {[agent_card |-> TranslatorCard, tags |-> <<"nlp">>],
     [agent_card |-> ForecastCard, tags |-> <<>>]}

Queries == {"translate text", "weather today", "weather forecasts"}

\* Queries contained in a name, a skill name or a tag of the agents, or in
\* none of them.
MatchQueries == {"TRANSLATOR", "late", "NLP", "transl", "n", "translate text"}

\* Queries on the border of the request model: empty, blank, ordinary.
BorderQueries == {"", "   ", "translate text"}

\* Cards and tag lists handed to embed_agent: a card is a dict, and any of
\* its keys may be missing, null or empty.
TranslateSkill == [name |-> "translate", description |-> None]

DetectSkill == [name |-> "detect", description |-> "Detects language"]

UnnamedSkill == [description |-> ""]

SkillLists ==
    {<<>>, <<TranslateSkill>>, <<TranslateSkill, DetectSkill>>,
     <<DetectSkill, TranslateSkill>>, <<UnnamedSkill>>}

Names == {"translator-agent", "", None}

Descriptions == {"Translates text", "", None}

ComposerCards ==
    {[name |-> n, description |-> d, skills |-> sk] :
        n \in Names, d \in Descriptions, sk \in SkillLists}
    \cup {[description |-> d, skills |-> sk] :
              d \in Descriptions, sk \in SkillLists}
    \cup {[name |-> n] : n \in Names}

TagLists == {<<>>, <<"nlp">>, <<"nlp", "translation">>}

(***************************************************************************)
(* Text composition.                                                       *)
(***************************************************************************)
\* A skill segment that leaves the description out.
SkillTextNameOnly(skill) == "Skill: " \o Str(Get(skill, "name", ""))

SkillText(skill) ==
    "Skill: " \o Str(Get(skill, "name", ""))
        \o (IF Truthy(Get(skill, "description", None))
            THEN " - " \o skill.description ELSE "")

RECURSIVE SkillParts(_)
SkillParts(skills) ==
    IF skills = <<>> THEN <<>>
    ELSE <<SkillText(Head(skills))>> \o SkillParts(Tail(skills))

\* EmbeddingService.embed_agent: the text that is embedded.
CombinedText(agent_card, tags) ==
    LET name == Get(agent_card, "name", None)
        description == Get(agent_card, "description", None)
        skills == Get(agent_card, "skills", <<>>)
        text_parts ==
            (IF Truthy(name) THEN <<"Agent: " \o name>> ELSE <<>>)
            \o (IF Truthy(description)
                THEN <<"Description: " \o description>> ELSE <<>>)
            \o SkillParts(skills)
            \o (IF tags # <<>> THEN <<"Tags: " \o Join(tags, ", ")>> ELSE <<>>)
    IN  IF text_parts # <<>> THEN Join(text_parts, " | ")
        ELSE Get(agent_card, "name", "unknown")

RECURSIVE SkillNames(_)
SkillNames(skills) ==
    IF skills = <<>> THEN <<>>
    ELSE <<"Skill: " \o Str(Head(skills).name)>> \o SkillNames(Tail(skills))

\* index_agent / index_all_agents: the text stored beside the vector.
TextContent(agent_card, tags) ==
    LET text_parts ==
            <<"Agent: " \o Str(agent_card.name)>>
            \o (IF Truthy(agent_card.description)
                THEN <<agent_card.description>> ELSE <<>>)
            \o SkillNames(agent_card.skills)
            \o (IF tags # <<>> THEN <<"Tags: " \o Join(tags, ", ")>> ELSE <<>>)
    IN  Join(text_parts, " | ")

(***************************************************************************)
(* The embedder and the similarity of the store.                           *)
(***************************************************************************)
NumDirs == 12

\* SentenceTransformer.encode: a fixed function of the text.
Encode(text) == Len(text) % NumDirs

EmbedText(text) == Encode(text)

EmbedAgent(agent_card, tags) == EmbedText(CombinedText(agent_card, tags))

One == 100000

\* cos(30 degrees * d) for d = 0..6, in units of 10^-5.
CosTable == <<100000, 86603, 50000, 0, -50000, -86603, -100000>>

Abs(x) == IF x < 0 THEN -x ELSE x

\* pgvector's <=> operator: the cosine distance of two vectors.
CosineDistance(u, v) ==
    LET d == Abs(u - v)
        k == IF d > NumDirs \div 2 THEN NumDirs - d ELSE d
    IN  One - CosTable[k + 1]

\* The select list's  1 - (e.embedding <=> $1::vector) as similarity.
Similarity(u, v) == One - CosineDistance(u, v)

\* round(similarity, 4): to the nearest multiple of 10 units, ties to even.
Round4(x) ==
    LET q == x \div 10
        r == x % 10
    IN  IF r < 5 THEN 10 * q
        ELSE IF r > 5 THEN 10 * (q + 1)
        ELSE IF q % 2 = 0 THEN 10 * q ELSE 10 * (q + 1)


(***************************************************************************)
(* State.                                                                  *)
(*   directory       registry_entries, in the order of registered_at       *)
(*   rows            agent_embeddings                                      *)
(*   now             CURRENT_TIMESTAMP, advanced by every write            *)
(*   pc, agents, i, indexed_count, failed_count                            *)
(*                   the running index_all_agents call                     *)
(*   resp            the response a handler has just returned              *)
(*   runLog, removed, prevCall                                             *)
(*                   history: what the run did to each agent, the agents   *)
(*                   deleted and not indexed since, the last index_agent   *)
(*                   request with the table it found                       *)
(*   overlap         history: what other requests did while the            *)
(*                   index_all_agents call was in its loop                 *)
(*   cache           the lru_cache of get_embedding_service                *)
(*   model           EmbeddingService._model                               *)
(*   started         the lifespan startup has run                          *)
(*   callers         the coroutines that use the embedding service         *)
(*   loads           history: the SentenceTransformer objects constructed  *)
(*   embedded        history: the last embed_agent call, with its text     *)
(*   db_service      the module global _db_service                         *)
(*   pool            DatabaseService._pool of that object                  *)
(*   checked_out     the connections of the pool that are acquired         *)
(*   tasks           the coroutines that use the database service          *)
(*   client          history: the last call of the registry client, with   *)
(*                   the HTTP exchange it made and how it ended            *)
(***************************************************************************)
VARIABLES directory, rows, now, pc, agents, i, indexed_count, failed_count,
          resp, runLog, removed, prevCall, overlap,
          cache, model, started, callers, loads, embedded,
          db_service, pool, checked_out, tasks, client

serviceVars == <<directory, rows, now, pc, agents, i, indexed_count,
                 failed_count, resp, runLog, removed, prevCall, overlap>>

loaderVars == <<cache, model, started, callers, loads, embedded>>

poolVars == <<db_service, pool, checked_out, tasks>>

clientVars == <<client>>

vars == <<serviceVars, loaderVars, poolVars, clientVars>>

runVars == <<pc, agents, i, indexed_count, failed_count, runLog>>

NoResp == [op |-> "none"]

\* No request has changed the directory or written an entry during the run.
NoOverlap == [dir_changed |-> FALSE, writes |-> {}]

NoEmbedCall == [handed |-> FALSE]

\* None in a slot that otherwise holds an object, named by a number from 1.
Unset == 0

Callers == 1..NumCallers

TaskIds == 1..NumTasks

\* A coroutine that has not been called.  todo is what its handler has still
\* to do, handed the DatabaseService get_database_service returned to it, holds
\* whether it has a connection of the pool, wrote the rows it has written.
IdleTask == [pc |-> "idle", op |-> "none", todo |-> <<>>, handed |-> "none",
             holds |-> FALSE, raised |-> FALSE, wrote |-> {},
             result |-> "none"]

\* A coroutine that has not been called: service and got are the
\* EmbeddingService and the model its last call obtained, early tells whether
\* that call began while no model was loaded.
IdleCaller == [pc |-> "idle", op |-> "none", service |-> Unset, got |-> Unset,
               early |-> FALSE]

\* prevCall: times counts the successful index_agent calls made in a row with
\* this request and no other write in between (2 stands for 2 or more);
\* before is the table a repeated call found; conflict tells whether a first
\* call found an entry of its agent holding another vector.
NoCall == [times |-> 0]

Faults == {"none", "embed", "store"}

RECURSIVE SeqToSet(_)
SeqToSet(s) == IF s = <<>> THEN {} ELSE {Head(s)} \cup SeqToSet(Tail(s))

RECURSIVE Filter(_, _)
Filter(s, a) ==
    IF s = <<>> THEN <<>>
    ELSE IF Head(s).agent_id = a THEN Filter(Tail(s), a)
    ELSE <<Head(s)>> \o Filter(Tail(s), a)

DirIds(dir) == {e.agent_id : e \in SeqToSet(dir)}

(***************************************************************************)
(* The vector table.                                                       *)
(***************************************************************************)
\* A table without the unique constraint: nothing ever conflicts.
ConflictNever(rs, agent_id) == FALSE

\* agent_id VARCHAR(255) UNIQUE NOT NULL
Conflict(rs, agent_id) == \E r \in rs : r.agent_id = agent_id

\* A table without the foreign key.
ForeignKeyNone(dir, agent_id) == TRUE

\* FOREIGN KEY (agent_id) REFERENCES registry_entries(agent_id)
ForeignKeyHolds(dir, agent_id) == agent_id \in DirIds(dir)

\* A foreign key that does not cascade and does not restrict.
CascadeDeleteNone(rs, agent_id) == rs

\* ... ON DELETE CASCADE
CascadeDelete(rs, agent_id) == {r \in rs : r.agent_id # agent_id}

\* INSERT ... ON CONFLICT (agent_id) DO NOTHING: the first write stays.
StoreEmbeddingDoNothing(rs, agent_id, embedding, text_content, t) ==
    IF Conflict(rs, agent_id)
    THEN rs
    ELSE rs \cup {[agent_id |-> agent_id, embedding |-> embedding,
                   text_content |-> text_content, updated_at |-> t]}

\* A plain INSERT, with no ON CONFLICT clause taking the existing row.
StoreEmbeddingInsertOnly(rs, agent_id, embedding, text_content, t) ==
    rs \cup {[agent_id |-> agent_id, embedding |-> embedding,
              text_content |-> text_content, updated_at |-> t]}

\* An update that sets the vector and leaves the text of the existing row.
StoreEmbeddingKeepsText(rs, agent_id, embedding, text_content, t) ==
    IF Conflict(rs, agent_id)
    THEN {IF r.agent_id = agent_id
              THEN [r EXCEPT !.embedding = embedding, !.updated_at = t]
              ELSE r : r \in rs}
    ELSE rs \cup {[agent_id |-> agent_id, embedding |-> embedding,
                   text_content |-> text_content, updated_at |-> t]}

\* INSERT ... ON CONFLICT (agent_id) DO UPDATE SET ...
StoreEmbedding(rs, agent_id, embedding, text_content, t) ==
    IF Conflict(rs, agent_id)
    THEN {IF r.agent_id = agent_id
              THEN [r EXCEPT !.embedding = embedding,
                             !.text_content = text_content,
                             !.updated_at = t]
              ELSE r : r \in rs}
    ELSE rs \cup {[agent_id |-> agent_id, embedding |-> embedding,
                   text_content |-> text_content, updated_at |-> t]}

\* A statement that has written its row by the time it raises.
StoreEmbeddingRaisesAfterWrite(rs, agent_id, embedding, text_content, t) ==
    StoreEmbedding(rs, agent_id, embedding, text_content, t)

\* conn.execute raises: the single INSERT statement is its own transaction,
\* and a statement that fails writes nothing.
StoreEmbeddingRaises(rs, agent_id, embedding, text_content, t) == rs

\* A query that reads the first registered agent only.
GetAllAgentsFirstOnly(dir) ==
    [k \in 1..(IF Len(dir) > 1 THEN 1 ELSE Len(dir)) |->
        [agent_id |-> dir[k].agent_id, agent_card |-> dir[k].agent_card,
         tags |-> dir[k].tags]]

\* SELECT agent_id, agent_card, tags FROM registry_entries ORDER BY registered_at
GetAllAgents(dir) ==
    [k \in 1..Len(dir) |->
        [agent_id |-> dir[k].agent_id, agent_card |-> dir[k].agent_card,
         tags |-> dir[k].tags]]

Init ==
    /\ directory = <<>>
    /\ rows = {}
    /\ now = 0
    /\ pc = "idle"
    /\ agents = <<>>
    /\ i = 0
    /\ indexed_count = 0
    /\ failed_count = 0
    /\ resp = NoResp
    /\ runLog = <<>>
    /\ removed = {}
    /\ prevCall = NoCall
    /\ overlap = NoOverlap
    /\ cache = Unset
    /\ model = Unset
    /\ started = FALSE
    /\ callers = [c \in Callers |-> IdleCaller]
    /\ loads = 0
    /\ embedded = NoEmbedCall
    /\ db_service = Unset
    /\ pool = Unset
    /\ checked_out = 0
    /\ tasks = [t \in TaskIds |-> IdleTask]
    /\ client = [method |-> "none"]

(***************************************************************************)
(* The directory service: registration and deletion of an agent.           *)
(***************************************************************************)
RegisterAgent(a, reg) ==
    /\ resp = NoResp
    /\ a \notin DirIds(directory)
    /\ directory' = Append(directory,
                           [agent_id |-> a, agent_card |-> reg.agent_card,
                            tags |-> reg.tags, verified |-> reg.verified])
    /\ prevCall' = NoCall
    /\ overlap' = IF pc = "loop" THEN [overlap EXCEPT !.dir_changed = TRUE]
                  ELSE overlap
    /\ UNCHANGED <<rows, now, runVars, resp, removed>>
    /\ UNCHANGED <<loaderVars, poolVars, clientVars>>

DeleteAgent(a) ==
    /\ resp = NoResp
    /\ a \in DirIds(directory)
    /\ directory' = Filter(directory, a)
    /\ rows' = CascadeDelete(rows, a)
    /\ removed' = removed \cup {a}
    /\ prevCall' = NoCall
    /\ overlap' = IF pc = "loop" THEN [overlap EXCEPT !.dir_changed = TRUE]
                  ELSE overlap
    /\ UNCHANGED <<now, runVars, resp>>
    /\ UNCHANGED <<loaderVars, poolVars, clientVars>>

(***************************************************************************)
(* index_agent: POST /api/v1/semantic/index                                *)
(***************************************************************************)
IndexAgent(a, inp, fault) ==
    /\ resp = NoResp
    /\ LET embedding == EmbedAgent(inp.agent_card, inp.tags)
           text_content == TextContent(inp.agent_card, inp.tags)
           request == [agent_id |-> a, agent_card |-> inp.agent_card,
                       tags |-> inp.tags]
           again == prevCall.times > 0 /\ prevCall.request = request
       IN  IF fault = "none" /\ ForeignKeyHolds(directory, a)
           THEN /\ now < MaxWrites
                /\ rows' = StoreEmbedding(rows, a, embedding, text_content, now)
                /\ now' = now + 1
                /\ removed' = removed \ {a}
                /\ prevCall' =
                       IF again
                       THEN [times |-> 2, request |-> request, before |-> rows]
                       ELSE [times |-> 1, request |-> request,
                             conflict |-> \E r \in rows :
                                             /\ r.agent_id = a
                                             /\ r.embedding # embedding]
                /\ resp' = [op |-> "index_one", status |-> 200,
                            agent_id |-> a]
                /\ overlap' =
                       IF pc = "loop"
                       THEN [overlap EXCEPT !.writes = @ \cup
                                {[agent_id |-> a, embedding |-> embedding,
                                  text_content |-> text_content,
                                  at |-> now]}]
                       ELSE overlap
           ELSE /\ rows' = IF fault = "embed" THEN rows
                            ELSE StoreEmbeddingRaises(rows, a, embedding,
                                                      text_content, now)
                /\ resp' = [op |-> "index_one", status |-> 500]
                /\ UNCHANGED <<now, removed, prevCall, overlap>>
    /\ UNCHANGED <<directory, runVars>>
    /\ UNCHANGED <<loaderVars, poolVars, clientVars>>

(***************************************************************************)
(* index_all_agents: POST /api/v1/semantic/index-all                       *)
(***************************************************************************)
IndexAllStart(fault) ==
    /\ resp = NoResp
    /\ pc = "idle"
    /\ IF fault = "none"
       THEN /\ agents' = GetAllAgents(directory)
            /\ pc' = "loop"
            /\ i' = 1
            /\ indexed_count' = 0
            /\ failed_count' = 0
            /\ runLog' = <<>>
            /\ UNCHANGED resp
       ELSE /\ resp' = [op |-> "index_all", status |-> 500]
            /\ UNCHANGED runVars
    /\ overlap' = NoOverlap
    /\ UNCHANGED <<directory, rows, now, removed, prevCall>>
    /\ UNCHANGED <<loaderVars, poolVars, clientVars>>

\* An inner handler that lets the errors of the embedder through.
CaughtStoreErrorsOnly(fault) == fault # "embed"

\* except Exception as e: every error raised for one agent is caught here.
Caught(fault) == TRUE

\* A handler whose first failing agent ends the loop.
AfterFailureAbort(idx, failed) ==
    [i |-> Len(agents) + 1, failed_count |-> failed + 1]

\* A handler that swallows a failure without counting it.
AfterFailureUncounted(idx, failed) ==
    [i |-> idx + 1, failed_count |-> failed]

\* except Exception: failed_count += 1, and the loop goes on to the next agent.
AfterFailure(idx, failed) ==
    [i |-> idx + 1, failed_count |-> failed + 1]

IndexAllStep(fault) ==
    /\ resp = NoResp
    /\ pc = "loop"
    /\ i <= Len(agents)
    /\ LET agent == agents[i]
           embedding == EmbedAgent(agent.agent_card, agent.tags)
           text_content == TextContent(agent.agent_card, agent.tags)
           error == IF fault # "none" THEN "raised"
                    ELSE IF ~ForeignKeyHolds(directory, agent.agent_id)
                    THEN "fk" ELSE "none"
       IN  IF error = "none"
           THEN /\ now < MaxWrites
                /\ rows' = StoreEmbedding(rows, agent.agent_id, embedding,
                                          text_content, now)
                /\ now' = now + 1
                /\ indexed_count' = indexed_count + 1
                /\ removed' = removed \ {agent.agent_id}
                /\ prevCall' = NoCall
                /\ runLog' = Append(runLog, [agent_id |-> agent.agent_id,
                                             ok |-> TRUE, at |-> now,
                                             error |-> error])
                /\ i' = i + 1
                /\ UNCHANGED <<failed_count, pc, agents, resp, overlap>>
           ELSE /\ rows' = IF fault = "embed" THEN rows
                            ELSE StoreEmbeddingRaises(rows, agent.agent_id,
                                     embedding, text_content, now)
                /\ IF Caught(fault)
                   THEN /\ failed_count' =
                               AfterFailure(i, failed_count).failed_count
                        /\ i' = AfterFailure(i, failed_count).i
                        /\ runLog' = Append(runLog,
                                            [agent_id |-> agent.agent_id,
                                             ok |-> FALSE, at |-> now,
                                             error |-> error])
                        /\ UNCHANGED <<indexed_count, pc, agents, resp,
                                       overlap>>
                   ELSE \* the error reaches the outer handler
                        /\ resp' = [op |-> "index_all", status |-> 500]
                        /\ pc' = "idle"
                        /\ agents' = <<>>
                        /\ i' = 0
                        /\ indexed_count' = 0
                        /\ failed_count' = 0
                        /\ runLog' = <<>>
                        /\ overlap' = NoOverlap
                /\ UNCHANGED <<now, removed, prevCall>>
    /\ UNCHANGED directory
    /\ UNCHANGED <<loaderVars, poolVars, clientVars>>

IndexAllReturn ==
    /\ resp = NoResp
    /\ pc = "loop"
    /\ i > Len(agents)
    /\ resp' = [op |-> "index_all", status |-> 200,
                indexed_count |-> indexed_count,
                failed_count |-> failed_count,
                snapshot |-> agents, log |-> runLog, overlap |-> overlap]
    /\ pc' = "idle"
    /\ agents' = <<>>
    /\ i' = 0
    /\ indexed_count' = 0
    /\ failed_count' = 0
    /\ runLog' = <<>>
    /\ overlap' = NoOverlap
    /\ UNCHANGED <<directory, rows, now, removed, prevCall>>
    /\ UNCHANGED <<loaderVars, poolVars, clientVars>>

(***************************************************************************)
(* DatabaseService.search_similar                                          *)
(***************************************************************************)
MinScores == {0, 86603}

TopKs == 1..MaxTopK

\* request.filters.get("tags") of a request that gives no tags.
NoTags == <<None>>

TagFilters == {NoTags, <<"nlp">>}

\* if tags_filter:
TagsFilterGiven(tags_filter) == tags_filter # NoTags /\ tags_filter # <<>>

\* r.tags && $n::text[]
Overlap(tags, tags_filter) ==
    \E j \in 1..Len(tags) : \E k \in 1..Len(tags_filter) : tags[j] = tags_filter[k]

\* FROM agent_embeddings e JOIN registry_entries r ON e.agent_id = r.agent_id
Joined(rs, dir) ==
    {c \in [e : rs, r : SeqToSet(dir)] : c.e.agent_id = c.r.agent_id}

\* A WHERE clause without the threshold on the similarity.
WhereNoThreshold(c, query_embedding, min_score, tags_filter, verified_only) ==
    /\ verified_only => c.r.verified
    /\ TagsFilterGiven(tags_filter) => Overlap(c.r.tags, tags_filter)

\* WHERE 1 - (e.embedding <=> $1::vector) >= $2 [AND r.verified = true]
\* [AND r.tags && $3::text[]]
Where(c, query_embedding, min_score, tags_filter, verified_only) ==
    /\ Similarity(c.e.embedding, query_embedding) >= min_score
    /\ verified_only => c.r.verified
    /\ TagsFilterGiven(tags_filter) => Overlap(c.r.tags, tags_filter)

\* ORDER BY similarity DESC: every order of the rows that is descending in
\* similarity; the order of rows of equal similarity is the server's choice.
OrderBySimilarityDesc(cs, query_embedding) ==
    {s \in [1..Cardinality(cs) -> cs] :
        /\ \A j, k \in 1..Cardinality(cs) : j # k => s[j] # s[k]
        /\ \A j, k \in 1..Cardinality(cs) :
              j < k => Similarity(s[j].e.embedding, query_embedding)
                        >= Similarity(s[k].e.embedding, query_embedding)}

\* A limit that is one too large.
LimitOffByOne(s, n) == [k \in 1..(IF n + 1 < Len(s) THEN n + 1 ELSE Len(s)) |-> s[k]]

\* LIMIT $n
Limit(s, n) == [k \in 1..(IF n < Len(s) THEN n ELSE Len(s)) |-> s[k]]

\* The rows as (agent_data, similarity) tuples.
ResultTuples(s, query_embedding) ==
    [k \in 1..Len(s) |->
        [agent_id |-> s[k].r.agent_id, agent_card |-> s[k].r.agent_card,
         tags |-> s[k].r.tags, verified |-> s[k].r.verified,
         matched_text |-> s[k].e.text_content,
         similarity |-> Similarity(s[k].e.embedding, query_embedding)]]

\* The set of lists search_similar may return.
SearchSimilar(rs, dir, query_embedding, top_k, min_score, tags_filter, verified_only) ==
    LET cs == {c \in Joined(rs, dir) :
                  Where(c, query_embedding, min_score, tags_filter,
                        verified_only)}
    IN  {ResultTuples(Limit(s, top_k), query_embedding) :
            s \in OrderBySimilarityDesc(cs, query_embedding)}

(***************************************************************************)
(* semantic_search: POST /api/v1/semantic/search                           *)
(***************************************************************************)
\* SemanticSearchResult.similarity_score: Field(..., ge=0, le=1)
ScoreValid(score) == 0 <= score /\ score <= One

\* A rule list that looks at the skills before the name.
MatchedOnSkillsFirst(query, agent_data) ==
    LET query_lower == Lower(query)
        agent_card_data == agent_data.agent_card
        skills == Get(agent_card_data, "skills", <<>>)
    IN  IF \E k \in 1..Len(skills) :
              Contains(query_lower, Lower(Get(skills[k], "name", "")))
        THEN "skills"
        ELSE IF Contains(query_lower, Lower(Get(agent_card_data, "name", "")))
        THEN "name"
        ELSE IF \E k \in 1..Len(agent_data.tags) :
                   Contains(query_lower, Lower(agent_data.tags[k]))
        THEN "tags"
        ELSE "description"

\* Determine what matched: query_lower in name, in a skill name, in a tag.
MatchedOn(query, agent_data) ==
    LET query_lower == Lower(query)
        agent_card_data == agent_data.agent_card
        skills == Get(agent_card_data, "skills", <<>>)
    IN  IF Contains(query_lower, Lower(Get(agent_card_data, "name", "")))
        THEN "name"
        ELSE IF \E k \in 1..Len(skills) :
                   Contains(query_lower, Lower(Get(skills[k], "name", "")))
        THEN "skills"
        ELSE IF \E k \in 1..Len(agent_data.tags) :
                   Contains(query_lower, Lower(agent_data.tags[k]))
        THEN "tags"
        ELSE "description"

\* MatchedOn over every query and every registry entry of the model,
\* computed once.
MatchedOnTable ==
    [query \in Queries \cup MatchQueries \cup BorderQueries |->
        [agent_data \in {[agent_card |-> RegistrationOf(a).agent_card,
                          tags |-> RegistrationOf(a).tags] : a \in AgentIds} |->
            MatchedOn(query, agent_data)]]

\* The results list of the handler: each score rounded to 4 decimals, each
\* hit with its matched_on.
FormatResults(raw_results, query) ==
    [k \in 1..Len(raw_results) |->
        [agent_id |-> raw_results[k].agent_id,
         agent_card |-> raw_results[k].agent_card,
         tags |-> raw_results[k].tags,
         verified |-> raw_results[k].verified,
         similarity_score |-> Round4(raw_results[k].similarity),
         matched_on |-> MatchedOnTable[query][
                            [agent_card |-> raw_results[k].agent_card,
                             tags |-> raw_results[k].tags]]]]

\* A request model that bounds top_k alone.
RequestValidTopKOnly(top_k, min_score) == 1 <= top_k /\ top_k <= 100

\* SemanticSearchRequest: top_k Field(ge=1, le=100), min_score Field(ge=0,
\* le=1); query is a str with no constraint.  A request that fails is
\* answered 422 before the handler is entered.
RequestValid(top_k, min_score) ==
    /\ 1 <= top_k /\ top_k <= 100
    /\ 0 <= min_score /\ min_score <= One

SemanticSearch(query, top_k, min_score, tags_filter, verified_only, fault) ==
    /\ resp = NoResp
    /\ LET request == [query |-> query, top_k |-> top_k,
                       min_score |-> min_score, tags_filter |-> tags_filter,
                       verified_only |-> verified_only]
           query_embedding == EmbedText(query)
       IN  IF ~RequestValid(top_k, min_score)
           THEN resp' = [op |-> "search", status |-> 422,
                         request |-> request, calls |-> <<>>]
           ELSE IF fault = "none"
           THEN \E raw_results \in SearchSimilar(rows, directory,
                                      query_embedding, top_k, min_score,
                                      tags_filter, verified_only) :
                   LET results == FormatResults(raw_results, query)
                   IN  IF \A k \in 1..Len(results) :
                              ScoreValid(results[k].similarity_score)
                       THEN resp' = [op |-> "search", status |-> 200,
                                     request |-> request,
                                     results |-> results,
                                     total |-> Len(results),
                                     calls |-> <<"embed_text",
                                                 "search_similar">>]
                       ELSE resp' = [op |-> "search", status |-> 500,
                                     detail |-> "validation",
                                     calls |-> <<"embed_text",
                                                 "search_similar">>]
           ELSE resp' = [op |-> "search", status |-> 500, detail |-> fault,
                         calls |-> IF fault = "embed" THEN <<"embed_text">>
                                   ELSE <<"embed_text", "search_similar">>]
    /\ UNCHANGED <<directory, rows, now, runVars, removed, prevCall, overlap>>
    /\ UNCHANGED <<loaderVars, poolVars, clientVars>>

\* The caller receives the response.
Deliver ==
    /\ resp # NoResp
    /\ resp' = NoResp
    /\ UNCHANGED <<directory, rows, now, runVars, removed, prevCall, overlap>>
    /\ UNCHANGED <<loaderVars, poolVars, clientVars>>

(***************************************************************************)
(* The embedding service and its model.  Every user of the service is a    *)
(* coroutine of one event loop: it runs alone from one await to the next.  *)
(***************************************************************************)
\* @lru_cache() def get_embedding_service(): the cached EmbeddingService, or
\* a new one (object 1) when the cache is empty.
GetEmbeddingService(ch) == IF ch = Unset THEN 1 ELSE ch

\* A getter that loads on every access.
ModelIsNoneAlways(m) == TRUE

\* if self._model is None:
ModelIsNone(m) == m = Unset

\* EmbeddingService.model: the value of self._model when the getter returns;
\* n is the number of models constructed so far, so a new model is n + 1.
ModelGetter(m, n) == IF ModelIsNone(m) THEN n + 1 ELSE m

\* The models constructed once the getter has returned.
LoadsAfter(m, n) == IF ModelIsNone(m) THEN n + 1 ELSE n

HandlerOps == {"semantic_search", "get_stats"}

\* lifespan: the startup pre-loads the model, before any request is served.
Lifespan ==
    /\ ~started
    /\ callers = [c \in Callers |-> IdleCaller]
    /\ started' = TRUE
    /\ cache' = GetEmbeddingService(cache)
    /\ model' = ModelGetter(model, loads)
    /\ loads' = LoadsAfter(model, loads)
    /\ UNCHANGED <<callers, embedded>>
    /\ UNCHANGED <<serviceVars, poolVars, clientVars>>

\* A handler is called: it takes the embedding service and awaits the
\* database service.
Call(c, op) ==
    /\ callers[c].pc = "idle"
    /\ cache' = GetEmbeddingService(cache)
    /\ callers' = [callers EXCEPT ![c] =
                      [pc |-> "await_db", op |-> op, service |-> cache',
                       got |-> Unset, early |-> model = Unset]]
    /\ UNCHANGED <<model, started, loads, embedded>>
    /\ UNCHANGED <<serviceVars, poolVars, clientVars>>

\* The handler has its database service: semantic_search embeds its query
\* (embed_text reads self.model) and awaits search_similar; get_stats awaits
\* get_all_agents.
ResumeAfterDb(c) ==
    /\ callers[c].pc = "await_db"
    /\ IF callers[c].op = "semantic_search"
       THEN /\ model' = ModelGetter(model, loads)
            /\ loads' = LoadsAfter(model, loads)
            /\ callers' = [callers EXCEPT ![c].pc = "await_query",
                                          ![c].got = model']
       ELSE /\ callers' = [callers EXCEPT ![c].pc = "await_query"]
            /\ UNCHANGED <<model, loads>>
    /\ UNCHANGED <<cache, started, embedded>>
    /\ UNCHANGED <<serviceVars, poolVars, clientVars>>

\* The query has answered: get_stats reads embedding_service.dimension
\* (self.model again), and the handler returns.
ResumeAfterQuery(c) ==
    /\ callers[c].pc = "await_query"
    /\ IF callers[c].op = "get_stats"
       THEN /\ model' = ModelGetter(model, loads)
            /\ loads' = LoadsAfter(model, loads)
            /\ callers' = [callers EXCEPT ![c].pc = "idle",
                                          ![c].got = model']
       ELSE /\ callers' = [callers EXCEPT ![c].pc = "idle"]
            /\ UNCHANGED <<model, loads>>
    /\ UNCHANGED <<cache, started, embedded>>
    /\ UNCHANGED <<serviceVars, poolVars, clientVars>>

\* EmbeddingService.embed_agent, called with any card and tag list: the text
\* is composed, logged (combined_text[:100] raises TypeError on None) and
\* handed to embed_text.
EmbedAgentCall(agent_card, tags) ==
    /\ embedded' =
           LET combined_text == CombinedText(agent_card, tags)
           IN  [agent_card |-> agent_card, tags |-> tags,
                combined_text |-> combined_text,
                handed |-> combined_text # None]
    /\ UNCHANGED <<cache, model, started, callers, loads>>
    /\ UNCHANGED <<serviceVars, poolVars, clientVars>>

(***************************************************************************)
(* The database service, its connection pool and the coroutines that use   *)
(* them.  A coroutine runs alone from one await to the next; the awaits    *)
(* are create_pool, pool.acquire, the statement and the release.           *)
(***************************************************************************)
\* asyncpg.create_pool(..., max_size=20)
max_size == 20

TaskOps == {"index_agent", "index_all", "semantic_search", "get_stats",
            "health_check"}

EmbedCalls == {"embed_agent", "embed_text"}

StoreCalls == {"_setup_vector_table", "store_embedding", "search_similar",
               "get_all_agents", "is_connected"}

\* for agent in agents: embed_agent, then store_embedding.
RECURSIVE PerAgent(_)
PerAgent(snapshot) ==
    IF snapshot = <<>> THEN <<>>
    ELSE <<[call |-> "embed_agent", agent_id |-> Head(snapshot).agent_id,
            agent_card |-> Head(snapshot).agent_card,
            tags |-> Head(snapshot).tags],
           [call |-> "store_embedding", agent_id |-> Head(snapshot).agent_id,
            agent_card |-> Head(snapshot).agent_card,
            tags |-> Head(snapshot).tags]>>
         \o PerAgent(Tail(snapshot))

\* What a handler does once it has its database service: the embeddings it
\* computes and the store operations it awaits, in order.
Program(op, a, inp) ==
    CASE op = "index_agent" ->
            PerAgent(<<[agent_id |-> a, agent_card |-> inp.agent_card,
                        tags |-> inp.tags]>>)
      [] op = "semantic_search" ->
            <<[call |-> "embed_text"], [call |-> "search_similar"]>>
      [] op = "index_all" -> <<[call |-> "get_all_agents"]>>
      [] op = "get_stats" -> <<[call |-> "get_all_agents"]>>
      [] op = "health_check" -> <<[call |-> "is_connected"]>>

\* The coroutine goes on with the rest of its handler, or returns.
Continue(task, rest) ==
    IF rest = <<>>
    THEN [task EXCEPT !.pc = "done", !.todo = <<>>,
                      !.result = IF task.result = "none" THEN "ok"
                                 ELSE task.result]
    ELSE [task EXCEPT !.pc = "run", !.todo = rest]

\* An exception leaves the store operation at the head of todo: the inner
\* handler of index_all_agents counts it and goes on with the next agent,
\* is_connected answers False, every other handler ends with the error.
OnRaise(task) ==
    IF task.op = "index_all" /\ Head(task.todo).call = "store_embedding"
    THEN Continue([task EXCEPT !.result = "partial"], Tail(task.todo))
    ELSE IF Head(task.todo).call = "is_connected"
    THEN Continue([task EXCEPT !.result = "false"], <<>>)
    ELSE Continue([task EXCEPT !.result = "error"], <<>>)

\* get_database_service, up to its first await or its return: a new
\* DatabaseService (object 1) is made and connect() awaited when the global
\* is None, else the global is returned as it is.
TaskCall(t, op, a, inp) ==
    /\ tasks[t].pc = "idle"
    /\ IF db_service = Unset
       THEN /\ db_service' = 1
            /\ tasks' = [tasks EXCEPT ![t] =
                            [IdleTask EXCEPT !.pc = "create_pool", !.op = op,
                                             !.todo = Program(op, a, inp)]]
       ELSE /\ tasks' = [tasks EXCEPT ![t] =
                            [IdleTask EXCEPT
                                !.pc = "run", !.op = op,
                                !.todo = Program(op, a, inp),
                                !.handed = IF pool = Unset THEN "unconnected"
                                           ELSE "connected"]]
            /\ UNCHANGED db_service
    /\ UNCHANGED <<pool, checked_out>>
    /\ UNCHANGED <<serviceVars, loaderVars, clientVars>>

\* connect(): asyncpg.create_pool answers; self._pool is assigned when it
\* succeeds, and _setup_vector_table comes next.  When it raises, connect and
\* get_database_service raise, and nothing resets the global.
CreatePool(t, ok) ==
    /\ tasks[t].pc = "create_pool"
    /\ IF ok
       THEN /\ pool' = 1
            /\ tasks' = [tasks EXCEPT ![t] =
                            [@ EXCEPT !.pc = "run",
                                      !.todo = <<[call |-> "_setup_vector_table"]>>
                                                   \o @]]
       ELSE /\ tasks' = [tasks EXCEPT ![t] =
                            Continue([@ EXCEPT !.result = "error"], <<>>)]
            /\ UNCHANGED pool
    /\ UNCHANGED <<db_service, checked_out>>
    /\ UNCHANGED <<serviceVars, loaderVars, clientVars>>

\* The handler computes an embedding.
EmbedStep(t) ==
    /\ tasks[t].pc = "run"
    /\ tasks[t].todo # <<>>
    /\ Head(tasks[t].todo).call \in EmbedCalls
    /\ tasks' = [tasks EXCEPT ![t] = Continue(@, Tail(@.todo))]
    /\ UNCHANGED <<db_service, pool, checked_out>>
    /\ UNCHANGED <<serviceVars, loaderVars, clientVars>>

\* async with self._pool.acquire() as conn: a pool that is None raises
\* AttributeError (is_connected tests it first and answers False); a pool
\* with every connection out makes the coroutine wait.
Acquire(t) ==
    /\ tasks[t].pc = "run"
    /\ tasks[t].todo # <<>>
    /\ Head(tasks[t].todo).call \in StoreCalls
    /\ IF pool = Unset
       THEN /\ tasks' = [tasks EXCEPT ![t] = OnRaise(@)]
            /\ UNCHANGED checked_out
       ELSE /\ checked_out < max_size
            /\ checked_out' = checked_out + 1
            /\ tasks' = [tasks EXCEPT ![t] =
                            [@ EXCEPT !.pc = "execute", !.holds = TRUE]]
    /\ UNCHANGED <<db_service, pool>>
    /\ UNCHANGED <<serviceVars, loaderVars, clientVars>>

\* The statement of the store operation answers or raises.
Execute(t, ok) ==
    /\ tasks[t].pc = "execute"
    /\ LET step == Head(tasks[t].todo)
           writes == ok /\ step.call = "store_embedding"
                        /\ ForeignKeyHolds(directory, step.agent_id)
       IN  IF writes
           THEN LET embedding == EmbedAgent(step.agent_card, step.tags)
                    text_content == TextContent(step.agent_card, step.tags)
                IN  /\ now < MaxWrites
                    /\ rows' = StoreEmbedding(rows, step.agent_id, embedding,
                                              text_content, now)
                    /\ now' = now + 1
                    /\ removed' = removed \ {step.agent_id}
                    /\ prevCall' = NoCall
                    /\ tasks' = [tasks EXCEPT ![t] =
                                    [@ EXCEPT
                                        !.pc = "exit", !.raised = FALSE,
                                        !.wrote = @ \cup
                                            {[agent_id |-> step.agent_id,
                                              embedding |-> embedding,
                                              text_content |-> text_content,
                                              at |-> now]}]]
           ELSE /\ tasks' = [tasks EXCEPT ![t] =
                    [@ EXCEPT
                        !.pc = "exit",
                        !.raised = ~ok \/ step.call = "store_embedding",
                        !.todo = IF ok /\ step.call = "get_all_agents"
                                       /\ tasks[t].op = "index_all"
                                 THEN <<step>> \o PerAgent(GetAllAgents(directory))
                                 ELSE @]]
                /\ UNCHANGED <<rows, now, removed, prevCall>>
    /\ UNCHANGED <<directory, runVars, resp, overlap>>
    /\ UNCHANGED <<db_service, pool, checked_out>>
    /\ UNCHANGED <<loaderVars, clientVars>>

\* A context manager that keeps the connection when its body has raised.
HeldAfterExitLeakOnError(raised) == raised

\* The end of the async with block: the connection goes back to the pool,
\* whether the body returned or raised.
HeldAfterExit(raised) == FALSE

Exit(t) ==
    /\ tasks[t].pc = "exit"
    /\ LET task == tasks[t]
           held == HeldAfterExit(task.raised)
           left == [task EXCEPT !.holds = held, !.raised = FALSE]
           connected == [left EXCEPT !.handed = "connected"]
       IN  /\ checked_out' = IF held THEN checked_out ELSE checked_out - 1
           /\ tasks' = [tasks EXCEPT ![t] =
                  IF task.raised THEN OnRaise(left)
                  ELSE IF Head(task.todo).call = "_setup_vector_table"
                  THEN Continue(connected, Tail(task.todo))
                  ELSE Continue(left, Tail(task.todo))]
    /\ UNCHANGED <<db_service, pool>>
    /\ UNCHANGED <<serviceVars, loaderVars, clientVars>>

(***************************************************************************)
(* The registry client (src/registry-python-client): how a call ends,      *)
(* given the HTTP exchange it made.                                        *)
(***************************************************************************)
StatusCodes == {200, 201, 204, 301, 400, 401, 404, 409, 422, 500, 503}

\* httpx.Response.is_success
IsSuccess(status_code) == 200 <= status_code /\ status_code <= 299

HitTranslator ==
    [agent_id |-> "translator-agent", agent_card |-> TranslatorCard,
     tags |-> <<"nlp">>, verified |-> TRUE, similarity_score |-> 95000,
     matched_on |-> "skills"]

\* A hit that leaves the optional tags and verified out.
HitForecast ==
    [agent_id |-> "forecast", agent_card |-> ForecastCard,
     similarity_score |-> 50000, matched_on |-> "description"]

\* The bodies a response may carry: JSON objects, a JSON document that is not
\* an object, and text that is not JSON.
Bodies ==
    {[json |-> "object",
      value |-> [query |-> "translate text",
                 results |-> <<HitTranslator, HitForecast>>,
                 total |-> 2, processing_time_ms |-> 45]],
     [json |-> "object",
      value |-> [query |-> "translate text",
                 results |-> <<[agent_id |-> "translator-agent"]>>,
                 total |-> 1, processing_time_ms |-> 45]],
     [json |-> "object",
      value |-> [id |-> "1", agent_id |-> "translator-agent",
                 agent_card |-> TranslatorCard, owner |-> "anonymous",
                 registered_at |-> 1, last_updated |-> 1]],
     [json |-> "object",
      value |-> [message |-> "Agent not found", agent_id |-> "unknown"]],
     [json |-> "object", value |-> [detail |-> "Search failed"]],
     [json |-> "array", value |-> <<>>],
     [json |-> "invalid", text |-> "Bad Gateway"]}

\* What the transport gives a call: a response, or httpx.ConnectError.
Exchanges ==
    {[transport |-> "ok", response |-> [status_code |-> code, body |-> body]] :
        code \in StatusCodes, body \in Bodies}
    \cup {[transport |-> "connect_error"]}

\* try: data = response.json()  except Exception: {"message": response.text}
Decode(response) ==
    IF response.body.json = "invalid"
    THEN [dict |-> TRUE, value |-> [message |-> response.body.text]]
    ELSE [dict |-> response.body.json = "object", value |-> response.body.value]

\* RegistryClient._handle_response: data.get raises AttributeError when the
\* decoded body is not a dict.
HandleResponse(response) ==
    LET data == Decode(response)
        code == response.status_code
    IN  IF ~IsSuccess(code) /\ ~data.dict THEN [raises |-> "AttributeError"]
        ELSE IF code = 404
        THEN [raises |-> "AgentNotFoundError", status_code |-> 404,
              agent_id |-> Get(data.value, "agent_id", "unknown")]
        ELSE IF code = 409
        THEN [raises |-> "AgentAlreadyExistsError", status_code |-> 409,
              agent_id |-> Get(data.value, "agent_id", "unknown")]
        ELSE IF code = 400
        THEN [raises |-> "ValidationError", status_code |-> 400,
              message |-> Get(data.value, "message", "Validation failed")]
        ELSE IF code >= 500
        THEN [raises |-> "RegistryError", status_code |-> code,
              message |-> Get(data.value, "message", "Server error")]
        ELSE IF ~IsSuccess(code)
        THEN [raises |-> "RegistryError", status_code |-> code,
              message |-> Get(data.value, "message",
                              "Request failed with status " \o ToString(code))]
        ELSE [returns |-> data]

\* exceptions.py: RegistryError and its subclasses.
RegistryErrors ==
    {"RegistryError", "AgentNotFoundError", "AgentAlreadyExistsError",
     "ValidationError", "ConnectionError", "SemanticSearchError"}

Raises(outcome) == "raises" \in DOMAIN outcome

\* RegistryEntry(**data)
ValidRegistryEntry(data) ==
    /\ data.dict
    /\ {"id", "agent_id", "agent_card", "owner", "registered_at",
        "last_updated"} \subseteq DOMAIN data.value

\* SemanticSearchResult: the required fields, similarity_score in [0,1].
ValidSearchResult(hit) ==
    /\ {"agent_id", "agent_card", "similarity_score", "matched_on"}
          \subseteq DOMAIN hit
    /\ 0 <= hit.similarity_score /\ hit.similarity_score <= One

\* SemanticSearchResponse(**data)
ValidSearchResponse(data) ==
    /\ data.dict
    /\ {"query", "results", "total", "processing_time_ms"}
          \subseteq DOMAIN data.value
    /\ \A k \in 1..Len(data.value.results) :
          ValidSearchResult(data.value.results[k])

\* response_obj.results: the hits as SemanticSearchResult objects, the
\* optional fields filled with their defaults.
ParsedResults(data) ==
    [k \in 1..Len(data.value.results) |->
        LET hit == data.value.results[k]
        IN  [agent_id |-> hit.agent_id, agent_card |-> hit.agent_card,
             tags |-> Get(hit, "tags", <<>>),
             verified |-> Get(hit, "verified", FALSE),
             similarity_score |-> hit.similarity_score,
             matched_on |-> hit.matched_on]]

\* RegistryClient.get_agent
GetAgentOutcome(exchange) ==
    IF exchange.transport = "connect_error"
    THEN [raises |-> "ConnectionError"]
    ELSE LET handled == HandleResponse(exchange.response)
         IN  IF Raises(handled) THEN handled
             ELSE IF ValidRegistryEntry(handled.returns)
             THEN [returns |-> handled.returns.value]
             ELSE [raises |-> IF handled.returns.dict
                              THEN "pydantic.ValidationError" ELSE "TypeError"]

\* RegistryClient.semantic_search: except httpx.ConnectError, then
\* except RegistryError: raise, then except Exception: SemanticSearchError.
SemanticSearchOutcome(exchange) ==
    IF exchange.transport = "connect_error"
    THEN [raises |-> "ConnectionError"]
    ELSE LET handled == HandleResponse(exchange.response)
         IN  IF Raises(handled)
             THEN IF handled.raises \in RegistryErrors THEN handled
                  ELSE [raises |-> "SemanticSearchError", status_code |-> 500]
             ELSE IF ValidSearchResponse(handled.returns)
             THEN [returns |-> ParsedResults(handled.returns)]
             ELSE [raises |-> "SemanticSearchError", status_code |-> 500]

ClientMethods == {"_handle_response", "get_agent", "semantic_search"}

\* One call of the client.
ClientCall(method, exchange) ==
    /\ method = "_handle_response" => exchange.transport = "ok"
    /\ client' =
          [method |-> method, exchange |-> exchange,
           outcome |-> CASE method = "_handle_response" ->
                               HandleResponse(exchange.response)
                         [] method = "get_agent" -> GetAgentOutcome(exchange)
                         [] method = "semantic_search" ->
                               SemanticSearchOutcome(exchange)]
    /\ UNCHANGED <<serviceVars, loaderVars, poolVars>>

Next ==
    \/ \E agent_card \in ComposerCards, tags \in TagLists :
          EmbedAgentCall(agent_card, tags)
    \/ Lifespan
    \/ \E c \in Callers, op \in HandlerOps : Call(c, op)
    \/ \E c \in Callers : ResumeAfterDb(c)
    \/ \E c \in Callers : ResumeAfterQuery(c)
    \/ \E a \in AgentIds : \E reg \in Registrations(a) : RegisterAgent(a, reg)
    \/ \E a \in AgentIds : DeleteAgent(a)
    \/ \E a \in AgentIds, inp \in IndexInputs, fault \in Faults :
          IndexAgent(a, inp, fault)
    \/ \E fault \in Faults : IndexAllStart(fault)
    \/ \E fault \in Faults : IndexAllStep(fault)
    \/ IndexAllReturn
    \/ \E query \in Queries, top_k \in TopKs, min_score \in MinScores,
          tags_filter \in TagFilters, verified_only \in BOOLEAN,
          fault \in Faults :
          SemanticSearch(query, top_k, min_score, tags_filter, verified_only,
                         fault)
    \/ Deliver
    \/ \E t \in TaskIds, op \in TaskOps, a \in AgentIds, inp \in IndexInputs :
          TaskCall(t, op, a, inp)
    \/ \E t \in TaskIds, ok \in BOOLEAN : CreatePool(t, ok)
    \/ \E t \in TaskIds : EmbedStep(t)
    \/ \E t \in TaskIds : Acquire(t)
    \/ \E t \in TaskIds, ok \in BOOLEAN : Execute(t, ok)
    \/ \E t \in TaskIds : Exit(t)
    \/ \E method \in ClientMethods, exchange \in Exchanges :
          ClientCall(method, exchange)

\* The whole service.
Spec == Init /\ [][Next]_vars

\* The write path: the directory and the two indexing handlers.  A search
\* changes nothing of the directory, the table or a running index_all.
IndexNext ==
    \/ \E a \in AgentIds : \E reg \in Registrations(a) : RegisterAgent(a, reg)
    \/ \E a \in AgentIds : DeleteAgent(a)
    \/ \E a \in AgentIds, inp \in IndexInputs, fault \in Faults :
          IndexAgent(a, inp, fault)
    \/ \E fault \in Faults : IndexAllStart(fault)
    \/ \E fault \in Faults : IndexAllStep(fault)
    \/ IndexAllReturn
    \/ Deliver

IndexSpec == Init /\ [][IndexNext]_vars

\* The read path: searches over every table the directory and index_agent
\* can build.
SearchNext ==
    \/ \E a \in AgentIds : \E reg \in Registrations(a) : RegisterAgent(a, reg)
    \/ \E a \in AgentIds : DeleteAgent(a)
    \/ \E a \in AgentIds, inp \in IndexInputs, fault \in Faults :
          IndexAgent(a, inp, fault)
    \/ \E query \in Queries, top_k \in TopKs, min_score \in MinScores,
          tags_filter \in TagFilters, verified_only \in BOOLEAN,
          fault \in Faults :
          SemanticSearch(query, top_k, min_score, tags_filter, verified_only,
                         fault)
    \/ Deliver

SearchSpec == Init /\ [][SearchNext]_vars

\* Searches whose query is contained in a name, a skill name or a tag of the
\* agents, or in none of them.
MatchNext ==
    \/ \E a \in AgentIds : \E reg \in Registrations(a) : RegisterAgent(a, reg)
    \/ \E a \in AgentIds, inp \in IndexInputs : IndexAgent(a, inp, "none")
    \/ \E query \in MatchQueries, top_k \in {1, 5}, min_score \in {0, 50000} :
          SemanticSearch(query, top_k, min_score, NoTags, FALSE, "none")
    \/ Deliver

MatchSpec == Init /\ [][MatchNext]_vars

\* Searches whose query, top_k and min_score lie on and beyond the borders
\* of the request model.
BorderTopKs == {0, 1, 100, 101}

BorderMinScores == {-1, 0, One, One + 1}

ValidationNext ==
    \/ \E a \in AgentIds : \E reg \in Registrations(a) : RegisterAgent(a, reg)
    \/ \E a \in AgentIds, inp \in IndexInputs : IndexAgent(a, inp, "none")
    \/ \E query \in BorderQueries, top_k \in BorderTopKs,
          min_score \in BorderMinScores :
          SemanticSearch(query, top_k, min_score, NoTags, FALSE, "none")
    \/ Deliver

ValidationSpec == Init /\ [][ValidationNext]_vars

\* Searches with every kind of tag filter: none, the empty list, a tag of an
\* agent, a tag of no agent, both.
FilterTagFilters ==
    {NoTags, <<>>, <<"nlp">>, <<"vision">>, <<"vision", "nlp">>}

FilterNext ==
    \/ \E a \in AgentIds : \E reg \in Registrations(a) : RegisterAgent(a, reg)
    \/ \E a \in AgentIds, inp \in IndexInputs : IndexAgent(a, inp, "none")
    \/ \E query \in Queries, top_k \in TopKs, min_score \in MinScores,
          tags_filter \in FilterTagFilters, verified_only \in BOOLEAN :
          SemanticSearch(query, top_k, min_score, tags_filter, verified_only,
                         "none")
    \/ Deliver

FilterSpec == Init /\ [][FilterNext]_vars

\* The users of the database service: concurrent handlers over the agents of
\* the directory.
StoreNext ==
    \/ \E a \in AgentIds : \E reg \in Registrations(a) : RegisterAgent(a, reg)
    \/ \E t \in TaskIds, op \in TaskOps, a \in AgentIds, inp \in IndexInputs :
          TaskCall(t, op, a, inp)
    \/ \E t \in TaskIds, ok \in BOOLEAN : CreatePool(t, ok)
    \/ \E t \in TaskIds : EmbedStep(t)
    \/ \E t \in TaskIds : Acquire(t)
    \/ \E t \in TaskIds, ok \in BOOLEAN : Execute(t, ok)
    \/ \E t \in TaskIds : Exit(t)

StoreSpec == Init /\ [][StoreNext]_vars

\* The calls of the registry client over every exchange.
ClientNext ==
    \E method \in ClientMethods, exchange \in Exchanges :
        ClientCall(method, exchange)

ClientSpec == Init /\ [][ClientNext]_vars

\* The users of the embedding service alone.
LoaderNext ==
    \/ Lifespan
    \/ \E c \in Callers, op \in HandlerOps : Call(c, op)
    \/ \E c \in Callers : ResumeAfterDb(c)
    \/ \E c \in Callers : ResumeAfterQuery(c)

LoaderSpec == Init /\ [][LoaderNext]_vars

\* embed_agent over every card and tag list.
ComposerNext ==
    \E agent_card \in ComposerCards, tags \in TagLists :
        EmbedAgentCall(agent_card, tags)

ComposerSpec == Init /\ [][ComposerNext]_vars

(***************************************************************************)
(* Properties of the read path (checked under SearchSpec).                 *)
(***************************************************************************)
SearchOK == resp.op = "search" /\ resp.status = 200

HitIds == {resp.results[k].agent_id : k \in 1..Len(resp.results)}

Indexed(a) == \E r \in rows : r.agent_id = a

DirEntry(a) == CHOOSE e \in SeqToSet(directory) : e.agent_id = a

\* The similarity of agent a's stored vector to the query, before rounding.
RawScore(a, query) ==
    Similarity((CHOOSE r \in rows : r.agent_id = a).embedding, EmbedText(query))

\* a is in the directory, has an entry and passes the verified filter and
\* the tag filter of the request (a tag filter is one that names a tag).
PassesFilters(a, request) ==
    /\ a \in DirIds(directory)
    /\ Indexed(a)
    /\ request.verified_only => DirEntry(a).verified
    /\ TagsFilterGiven(request.tags_filter) =>
          \E t \in SeqToSet(DirEntry(a).tags) :
              t \in SeqToSet(request.tags_filter)

Qualifies(a, request) ==
    /\ PassesFilters(a, request)
    /\ RawScore(a, request.query) >= request.min_score

\* C1: every hit of a search response has a similarity_score, as presented
\* after the 4-decimal rounding, that is at least the requested min_score.
C1_PresentedScoreAtLeastMinScore ==
    SearchOK =>
        \A k \in 1..Len(resp.results) :
            resp.results[k].similarity_score >= resp.request.min_score

\* C2: the result list is the first top_k elements of the qualifying agents
\* sorted by descending score: it holds qualifying agents only, each once,
\* min(top_k, number of qualifying agents) of them, in descending order of
\* score, and no qualifying agent left out scores strictly higher than a
\* returned one.
C2_TopKOfQualifyingByScore ==
    SearchOK =>
        LET request == resp.request
            results == resp.results
            qualifying == {a \in AgentIds : Qualifies(a, request)}
            n == Cardinality(qualifying)
        IN  /\ Len(results) <= request.top_k
            /\ Len(results) = IF n < request.top_k THEN n ELSE request.top_k
            /\ HitIds \subseteq qualifying
            /\ \A j, k \in 1..Len(results) :
                  j # k => results[j].agent_id # results[k].agent_id
            /\ \A j, k \in 1..Len(results) :
                  j < k =>
                    /\ RawScore(results[j].agent_id, request.query)
                         >= RawScore(results[k].agent_id, request.query)
                    /\ results[j].similarity_score
                         >= results[k].similarity_score
            /\ \A a \in qualifying \ HitIds : \A b \in HitIds :
                  RawScore(a, request.query) <= RawScore(b, request.query)

\* top_k = 1 cuts a list of two qualifying agents of different scores.
C2_Witness ==
    /\ SearchOK
    /\ resp.request.top_k = 1
    /\ Len(resp.results) = 1
    /\ \E a \in AgentIds \ HitIds :
          /\ Qualifies(a, resp.request)
          /\ RawScore(a, resp.request.query)
               < RawScore(resp.results[1].agent_id, resp.request.query)

\* C3: two hits of equal similarity come in ascending order of agent_id.
C3_TiesByAgentIdAscending ==
    SearchOK =>
        \A j, k \in 1..Len(resp.results) :
            (/\ j < k
             /\ RawScore(resp.results[j].agent_id, resp.request.query)
                  = RawScore(resp.results[k].agent_id, resp.request.query))
            => resp.results[j].agent_id < resp.results[k].agent_id

C8_NoHitForRemovedAgent ==
    SearchOK => HitIds \cap removed = {}

\* A search that returns a hit while a removed agent has been registered
\* again and not yet indexed again.
C8_Witness ==
    /\ SearchOK
    /\ Len(resp.results) >= 1
    /\ \E a \in removed : a \in DirIds(directory)

(***************************************************************************)
(* Properties of the write path (checked under IndexSpec).                 *)
(***************************************************************************)
IndexAllOK == resp.op = "index_all" /\ resp.status = 200

StripTime(rs) ==
    {[agent_id |-> r.agent_id, embedding |-> r.embedding,
      text_content |-> r.text_content] : r \in rs}

\* C5: the table holds at most one entry per agent_id.
C5_OneEntryPerAgent ==
    \A r1, r2 \in rows : r1.agent_id = r2.agent_id => r1 = r2

\* index_agent has found an entry of its agent, made from another card, and
\* has written over it.
C5_Witness ==
    /\ prevCall.times = 1
    /\ prevCall.conflict
    /\ Cardinality({r \in rows : r.agent_id = prevCall.request.agent_id}) = 1

\* C6: after a second index_agent call with the request of the call before
\* it, the table holds exactly one entry of that agent, and every entry,
\* that one included, has the vector and the text it had after the first
\* call (updated_at aside).
C6_IndexAgentIdempotent ==
    prevCall.times = 2 =>
        /\ Cardinality({r \in rows : r.agent_id = prevCall.request.agent_id}) = 1
        /\ StripTime(rows) = StripTime(prevCall.before)
        /\ \A r \in rows : \A b \in prevCall.before :
              (r.agent_id = b.agent_id /\ r.agent_id # prevCall.request.agent_id)
                  => r = b

\* A second identical call, made while another agent has an entry too.
C6_Witness ==
    /\ prevCall.times = 2
    /\ Cardinality(rows) = 2
    /\ \E r \in rows : r.agent_id = prevCall.request.agent_id /\ r.updated_at > 0

\* C7: every entry's agent_id is the id of an agent of the directory.
C7_NoEntryWithoutAgent ==
    \A r \in rows : r.agent_id \in DirIds(directory)

\* index_all has come to an agent of its snapshot that was deleted in the
\* meantime, and its upsert was refused.
C7_Witness ==
    /\ pc = "loop"
    /\ \E k \in 1..Len(runLog) :
          /\ runLog[k].error = "fk"
          /\ runLog[k].agent_id \notin DirIds(directory)

\* C9: when exactly one agent of the snapshot fails, index_all returns
\* indexed_count = N - 1 and failed_count = 1, and has written an entry for
\* each other agent of the snapshot: the entry is in the table with that
\* write's time or a later one, unless the agent was removed since.
C9_PartialFailureIsolation ==
    IndexAllOK =>
        LET log == resp.log
            n == Len(resp.snapshot)
            failed == {k \in 1..Len(log) : ~log[k].ok}
        IN  Cardinality(failed) = 1 =>
              /\ resp.indexed_count = n - 1
              /\ resp.failed_count = 1
              /\ \A j \in 1..n :
                    j \notin failed =>
                      /\ j <= Len(log)
                      /\ log[j].agent_id = resp.snapshot[j].agent_id
                      /\ log[j].ok
                      /\ \/ log[j].agent_id \in removed
                         \/ \E r \in rows : /\ r.agent_id = log[j].agent_id
                                            /\ r.updated_at >= log[j].at

\* The first agent of a snapshot of two fails, and the second is indexed.
C9_Witness ==
    /\ IndexAllOK
    /\ Len(resp.snapshot) = 2
    /\ Len(resp.log) = 2
    /\ ~resp.log[1].ok
    /\ resp.log[2].ok
    /\ \E r \in rows : /\ r.agent_id = resp.log[2].agent_id
                       /\ r.updated_at = resp.log[2].at

\* C10: a run processes the agents of its snapshot in snapshot order, each
\* exactly once: at every moment it has handled the first i - 1 of them, one
\* count each, and when it returns indexed_count + failed_count is the size
\* of the snapshot (0 and 0 for an empty directory).
C10_EachAgentOnceInSnapshotOrder ==
    /\ pc = "loop" =>
          /\ i = Len(runLog) + 1
          /\ i <= Len(agents) + 1
          /\ \A k \in 1..Len(runLog) : runLog[k].agent_id = agents[k].agent_id
          /\ indexed_count + failed_count = Len(runLog)
    /\ IndexAllOK =>
          /\ Len(resp.log) = Len(resp.snapshot)
          /\ \A k \in 1..Len(resp.log) :
                resp.log[k].agent_id = resp.snapshot[k].agent_id
          /\ \A j, k \in 1..Len(resp.log) :
                j # k => resp.log[j].agent_id # resp.log[k].agent_id
          /\ resp.indexed_count = Cardinality({k \in 1..Len(resp.log) : resp.log[k].ok})
          /\ resp.failed_count = Cardinality({k \in 1..Len(resp.log) : ~resp.log[k].ok})
          /\ resp.indexed_count + resp.failed_count = Len(resp.snapshot)
          /\ resp.snapshot = <<>> =>
                resp.indexed_count = 0 /\ resp.failed_count = 0

\* A run over two agents has returned, one indexed and one failed.
C10_Witness ==
    /\ IndexAllOK
    /\ Len(resp.snapshot) = 2
    /\ resp.indexed_count = 1
    /\ resp.failed_count = 1

(***************************************************************************)
(* Failures on the write path (checked under IndexSpec).                   *)
(***************************************************************************)
\* C11: index_all ends in a failure only at the step that takes the
\* directory snapshot; once the snapshot is taken the run ends only by
\* returning its two counts, which count every agent of the snapshot,
\* whatever subset of the agents failed.
C11_IndexAllFailsOnlyAtSnapshot ==
    /\ [][(resp = NoResp /\ resp'.op = "index_all" /\ resp'.status = 500)
            => (pc = "idle" /\ pc' = "idle")]_vars
    /\ [][(pc = "loop" /\ pc' # "loop")
            => /\ resp'.op = "index_all"
               /\ resp'.status = 200
               /\ resp'.indexed_count = indexed_count
               /\ resp'.failed_count = failed_count
               /\ indexed_count + failed_count = Len(agents)]_vars

\* Every agent of a snapshot of two has failed, and the run has returned.
C11_Witness ==
    /\ IndexAllOK
    /\ Len(resp.snapshot) = 2
    /\ resp.indexed_count = 0
    /\ resp.failed_count = 2

\* C12: an index_agent call either reports success and has written the entry
\* of its agent, or reports a failure and leaves the table exactly as it was;
\* in both cases no entry of another agent changes.
C12_IndexAgentAllOrNothing ==
    [][(resp = NoResp /\ resp'.op = "index_one") =>
             \/ /\ resp'.status = 200
                /\ prevCall'.request.agent_id = resp'.agent_id
                /\ {r \in rows' : r.agent_id # resp'.agent_id}
                      = {r \in rows : r.agent_id # resp'.agent_id}
                /\ \E r \in rows' :
                      /\ r.agent_id = resp'.agent_id
                      /\ r.embedding = EmbedAgent(prevCall'.request.agent_card,
                                                  prevCall'.request.tags)
                      /\ r.text_content = TextContent(prevCall'.request.agent_card,
                                                      prevCall'.request.tags)
                      /\ r.updated_at = now
             \/ /\ resp'.status = 500
                /\ rows' = rows]_vars

\* A call has failed while every agent, the agent of the call among them,
\* has an entry.
C12_Witness ==
    /\ resp.op = "index_one"
    /\ resp.status = 500
    /\ \A a \in AgentIds : \E r \in rows : r.agent_id = a

(***************************************************************************)
(* The model of the embedding service (checked under LoaderSpec).          *)
(***************************************************************************)
\* C13: at most one model is ever constructed, and every caller that has
\* read the model, whenever it was called, holds the one model the service
\* holds; every caller holds the one cached service.
C13_ModelLoadedAtMostOnce ==
    /\ loads <= 1
    /\ model # Unset => loads = 1
    /\ \A c \in Callers :
          /\ callers[c].got # Unset => callers[c].got = model
          /\ callers[c].service # Unset => callers[c].service = cache

\* Two handlers were called while no model was loaded, with no startup
\* before them, and both have read the model.
C13_Witness ==
    /\ ~started
    /\ loads = 1
    /\ \E c, d \in Callers :
          /\ c # d
          /\ callers[c].early /\ callers[c].got # Unset
          /\ callers[d].early /\ callers[d].got # Unset

(***************************************************************************)
(* The text composed for an agent (checked under ComposerSpec).            *)
(***************************************************************************)
EmbedAgentCalled == embedded # NoEmbedCall

\* The segments after the name, as the claims word them.
DescriptionSegment(agent_card) ==
    IF Truthy(Get(agent_card, "description", None))
    THEN <<"Description: " \o agent_card.description>> ELSE <<>>

SkillSegments(agent_card) ==
    LET skills == Get(agent_card, "skills", <<>>)
    IN  [k \in 1..Len(skills) |->
            IF Truthy(Get(skills[k], "description", None))
            THEN "Skill: " \o Str(Get(skills[k], "name", ""))
                     \o " - " \o skills[k].description
            ELSE "Skill: " \o Str(Get(skills[k], "name", ""))]

TagsSegment(tags) ==
    IF tags # <<>> THEN <<"Tags: " \o Join(tags, ", ")>> ELSE <<>>

OtherSegments(agent_card, tags) ==
    DescriptionSegment(agent_card) \o SkillSegments(agent_card)
        \o TagsSegment(tags)

\* C14 as claimed: the text of every card that has a name, empty or not, is
\* "Agent: {name}" followed by the other segments, joined with " | ".
C14_AgentSegmentAlwaysFirst ==
    (EmbedAgentCalled /\ "name" \in DOMAIN embedded.agent_card
        /\ embedded.agent_card.name # None) =>
        embedded.combined_text
            = Join(<<"Agent: " \o embedded.agent_card.name>>
                       \o OtherSegments(embedded.agent_card, embedded.tags),
                   " | ")

\* C14, amended: the text is "Agent: {name}" when the name is non-empty (and
\* no such segment when it is empty, null or missing), then the description,
\* skill and tag segments in this order, joined with " | ", whenever there is
\* a segment at all; the text is fixed by the card and the tags.
C14_ComposedTextFormat ==
    EmbedAgentCalled =>
        LET name == Get(embedded.agent_card, "name", None)
            segments ==
                (IF Truthy(name) THEN <<"Agent: " \o name>> ELSE <<>>)
                    \o OtherSegments(embedded.agent_card, embedded.tags)
        IN  segments # <<>> =>
              /\ embedded.combined_text = Join(segments, " | ")
              /\ embedded.handed

\* A card with every kind of segment, two skills and two tags.
C14_Witness ==
    /\ EmbedAgentCalled
    /\ Get(embedded.agent_card, "skills", <<>>) = <<TranslateSkill, DetectSkill>>
    /\ embedded.combined_text =
          "Agent: translator-agent | Description: Translates text | "
            \o "Skill: translate | Skill: detect - Detects language | "
            \o "Tags: nlp, translation"

\* C15: a card with no description, no skills and no tags gives the bare
\* name, or the fixed placeholder when the name is missing, empty or null;
\* the text handed to the embedder is never empty and never null.
C15_BareNameOrPlaceholder ==
    EmbedAgentCalled =>
        LET name == Get(embedded.agent_card, "name", None)
        IN  /\ OtherSegments(embedded.agent_card, embedded.tags) = <<>> =>
                  embedded.combined_text
                      = (IF Truthy(name) THEN name ELSE "unknown")
            /\ embedded.handed
            /\ embedded.combined_text # ""

(***************************************************************************)
(* The text stored beside a vector (checked under IndexSpec).              *)
(***************************************************************************)
\* C16: the text_content of an entry written by index_agent or by a step of
\* index_all_agents is the very string that was embedded to give the entry's
\* vector: the text embed_agent composes from the card and the tags of the
\* write.
C16_SourceTextIsEmbeddedText ==
    /\ prevCall.times > 0 =>
          \A r \in rows :
              r.agent_id = prevCall.request.agent_id =>
                /\ r.text_content = CombinedText(prevCall.request.agent_card,
                                                 prevCall.request.tags)
                /\ r.embedding = EmbedText(r.text_content)
    /\ pc = "loop" =>
          \A k \in 1..Len(runLog) : \A r \in rows :
              (/\ runLog[k].ok
               /\ r.agent_id = runLog[k].agent_id
               /\ r.updated_at = runLog[k].at) =>
                /\ r.text_content = CombinedText(agents[k].agent_card,
                                                 agents[k].tags)
                /\ r.embedding = EmbedText(r.text_content)

(***************************************************************************)
(* matched_on (checked under MatchSpec).                                   *)
(***************************************************************************)
\* C17: matched_on of every hit is "name" when the lower-cased name contains
\* the lower-cased query, else "skills" when a skill name does, else "tags"
\* when a tag does, else "description"; and the hits, their order and their
\* scores are those the store returned for the request.
C17_MatchedOnByPriority ==
    SearchOK =>
        LET request == resp.request
            results == resp.results
            query_lower == Lower(request.query)
            InName(hit) == Contains(query_lower, Lower(hit.agent_card.name))
            InSkills(hit) ==
                \E j \in 1..Len(hit.agent_card.skills) :
                    Contains(query_lower, Lower(hit.agent_card.skills[j].name))
            InTags(hit) ==
                \E j \in 1..Len(hit.tags) :
                    Contains(query_lower, Lower(hit.tags[j]))
        IN  /\ \A k \in 1..Len(results) :
                  /\ results[k].matched_on
                        \in {"name", "skills", "tags", "description"}
                  /\ results[k].matched_on = "name" <=> InName(results[k])
                  /\ results[k].matched_on = "skills" <=>
                        (~InName(results[k]) /\ InSkills(results[k]))
                  /\ results[k].matched_on = "tags" <=>
                        (/\ ~InName(results[k]) /\ ~InSkills(results[k])
                         /\ InTags(results[k]))
            /\ \E raw_results \in SearchSimilar(rows, directory,
                                     EmbedText(request.query), request.top_k,
                                     request.min_score, request.tags_filter,
                                     request.verified_only) :
                  /\ Len(raw_results) = Len(results)
                  /\ \A k \in 1..Len(results) :
                        /\ results[k].agent_id = raw_results[k].agent_id
                        /\ results[k].similarity_score
                              = Round4(raw_results[k].similarity)

\* The query "n" is in the name, the skill and the tag of one hit, which is
\* matched on its name, and in nothing of the other hit.
C17_Witness ==
    /\ SearchOK
    /\ resp.request.query = "n"
    /\ Len(resp.results) = 2
    /\ \E j, k \in 1..2 :
          /\ resp.results[j].matched_on = "name"
          /\ Contains("n", resp.results[j].agent_card.skills[1].name)
          /\ Contains("n", resp.results[j].tags[1])
          /\ resp.results[k].matched_on = "description"

\* C18: the query "translate text", min_score 0.5 and top_k 5, over the one
\* indexed agent "translator-agent" with the skill "translate", the tag
\* "nlp" and verified, gives one hit, matched on "skills".
C18_TranslateTextMatchedOnSkills ==
    (/\ SearchOK
     /\ resp.request.query = "translate text"
     /\ resp.request.min_score = 50000
     /\ resp.request.top_k = 5
     /\ directory = <<[agent_id |-> 1, agent_card |-> TranslatorCard,
                       tags |-> <<"nlp">>, verified |-> TRUE]>>
     /\ \E r \in rows :
           /\ rows = {r}
           /\ r.agent_id = 1
           /\ r.embedding = EmbedAgent(TranslatorCard, <<"nlp">>))
    => /\ Len(resp.results) = 1
       /\ resp.results[1].matched_on = "skills"

(***************************************************************************)
(* Request validation (checked under ValidationSpec).                      *)
(***************************************************************************)
\* str.strip() == "": every character is a space.
IsBlank(str) == \A k \in 1..Len(str) : SubSeq(str, k, k) = " "

InRange(request) ==
    /\ 1 <= request.top_k /\ request.top_k <= 100
    /\ 0 <= request.min_score /\ request.min_score <= One

\* C19: a search whose query is empty or whitespace-only is rejected with a
\* validation error, with no embedding computed and no store query made.
C19_BlankQueryRejected ==
    (resp.op = "search" /\ IsBlank(resp.request.query)) =>
        /\ resp.status = 422
        /\ resp.calls = <<>>

\* C20: a search is rejected with a validation error exactly when its top_k
\* is outside [1,100] or its min_score is outside [0,1], and a rejected
\* search has called neither the embedder nor the store.
C20_OutOfRangeRejected ==
    resp.op = "search" =>
        /\ resp.status \in {200, 422}
        /\ resp.status = 422 <=> ~InRange(resp.request)
        /\ resp.status = 422 => resp.calls = <<>>
        /\ resp.status = 200 =>
              resp.calls = <<"embed_text", "search_similar">>

\* A request whose top_k is in range and whose min_score is just above 1 is
\* rejected, over a table that holds an entry.
C20_Witness ==
    /\ resp.op = "search"
    /\ resp.status = 422
    /\ resp.request.top_k = 100
    /\ resp.request.min_score = One + 1
    /\ rows # {}

(***************************************************************************)
(* The filters of a search (checked under FilterSpec).                     *)
(***************************************************************************)
\* The request gives a tag set, empty or not.
TagSetGiven(request) == request.tags_filter # NoTags

\* C21: when a tag set is given, every hit has a tag in common with it (an
\* empty tag set matches no agent); when verified_only is set every hit is
\* verified; and while top_k leaves room, every indexed agent that reaches
\* the threshold and passes the filters given is a hit.
C21_FiltersExact ==
    SearchOK =>
        LET request == resp.request
            results == resp.results
        IN  /\ TagSetGiven(request) =>
                  \A k \in 1..Len(results) :
                      Overlap(results[k].tags, request.tags_filter)
            /\ request.verified_only =>
                  \A k \in 1..Len(results) : results[k].verified
            /\ Len(results) < request.top_k =>
                  \A a \in DirIds(directory) :
                      (/\ Indexed(a)
                       /\ RawScore(a, request.query) >= request.min_score
                       /\ request.verified_only => DirEntry(a).verified
                       /\ TagSetGiven(request) =>
                             Overlap(DirEntry(a).tags, request.tags_filter))
                      => a \in HitIds

(***************************************************************************)
(* index_agent for an agent the directory does not hold (IndexSpec).       *)
(***************************************************************************)
\* C23: an index_agent call made while the directory holds no agent ends
\* with a not-found error, which is neither a success nor the error of a
\* failed dependency, and the table stays empty.
C23_AbsentAgentNotFound ==
    (resp.op = "index_one" /\ directory = <<>>) =>
        /\ resp.status # 200
        /\ resp # [op |-> "index_one", status |-> 500]
        /\ rows = {}

(***************************************************************************)
(* Concurrent users of the store (checked under StoreSpec).                *)
(***************************************************************************)
\* Every row a coroutine has written, with the time of the write.
Writes == UNION {tasks[t].wrote : t \in TaskIds}

WritesOf(a) == {w \in Writes : w.agent_id = a}

\* C22: whatever the interleaving of the writers, an agent has at most one
\* entry; every entry is, vector and text together, what one writer of that
\* agent wrote, and it is what the last of them wrote; the entry of an agent
\* depends on the writers of that agent alone.
C22_ConcurrentUpsertsLastWriteWins ==
    /\ \A r1, r2 \in rows : r1.agent_id = r2.agent_id => r1 = r2
    /\ \A r \in rows :
          [agent_id |-> r.agent_id, embedding |-> r.embedding,
           text_content |-> r.text_content, at |-> r.updated_at] \in Writes
    /\ \A a \in AgentIds :
          WritesOf(a) # {} =>
              \E r \in rows :
                  /\ r.agent_id = a
                  /\ \A w \in WritesOf(a) : w.at <= r.updated_at

\* Two index_agent calls for one agent, with different cards, have both
\* written while both held their connection, and another agent has an
\* entry too.
C22_Witness ==
    \E t, u \in TaskIds :
        /\ t # u
        /\ tasks[t].pc = "exit" /\ tasks[u].pc = "exit"
        /\ tasks[t].op = "index_agent" /\ tasks[u].op = "index_agent"
        /\ \E w \in tasks[t].wrote, v \in tasks[u].wrote :
              /\ w.agent_id = v.agent_id
              /\ w.embedding # v.embedding
              /\ w.text_content # v.text_content
              /\ w.at < v.at
              /\ \E r \in rows : /\ r.agent_id = v.agent_id
                                 /\ r.embedding = v.embedding
                                 /\ r.text_content = v.text_content

\* C26: the connections out of the pool are those of the coroutines that are
\* inside a store operation, one each; a coroutine outside a store
\* operation, whether the operation returned or raised, holds none, and so
\* does one that is about to compute an embedding; when no coroutine is in
\* flight no connection is out.
C26_ConnectionsReleased ==
    /\ checked_out = Cardinality({t \in TaskIds : tasks[t].holds})
    /\ \A t \in TaskIds :
          /\ tasks[t].pc = "execute" => tasks[t].holds
          /\ tasks[t].holds =>
                /\ tasks[t].pc \in {"execute", "exit"}
                /\ Head(tasks[t].todo).call \in StoreCalls
          /\ (tasks[t].todo # <<>> /\ Head(tasks[t].todo).call \in EmbedCalls)
                => ~tasks[t].holds
    /\ (\A t \in TaskIds : tasks[t].pc \in {"idle", "done"}) => checked_out = 0

\* Every coroutine has returned: an index_all run one of whose upserts
\* raised, and a handler that ended with an error.
C26_Witness ==
    /\ \A t \in TaskIds : tasks[t].pc = "done"
    /\ \E t, u \in TaskIds :
          /\ tasks[t].op = "index_all"
          /\ tasks[t].result = "partial"
          /\ tasks[t].wrote # {}
          /\ tasks[u].op \in {"semantic_search", "index_agent"}
          /\ tasks[u].handed = "connected"
          /\ tasks[u].result = "error"
    /\ checked_out = 0

\* C28: get_database_service hands no caller a DatabaseService whose pool is
\* None, neither while another caller awaits connect() nor after a connect()
\* that failed; and a connect() that failed leaves no singleton behind, so
\* that a later call connects again.
C28_NoUnconnectedServiceHandedOut ==
    /\ \A t \in TaskIds : tasks[t].handed # "unconnected"
    /\ (db_service # Unset /\ pool = Unset) =>
          \E t \in TaskIds : tasks[t].pc = "create_pool"

(***************************************************************************)
(* The registry client (checked under ClientSpec).                         *)
(***************************************************************************)
ClientResponded == client.method # "none" /\ client.exchange.transport = "ok"

\* C24: _handle_response ends in exactly the outcome the status names: 404
\* raises AgentNotFoundError, 409 AgentAlreadyExistsError, 400
\* ValidationError, every other status that is not a success RegistryError
\* with that status code, and a success status, and no other, returns the
\* decoded body; get_agent on a 404 raises AgentNotFoundError.
C24_EveryResponseMappedByStatus ==
    (ClientResponded /\ client.method \in {"_handle_response", "get_agent"}) =>
        LET code == client.exchange.response.status_code
            outcome == client.outcome
        IN  /\ code = 404 =>
                  Raises(outcome) /\ outcome.raises = "AgentNotFoundError"
            /\ client.method = "_handle_response" =>
                  /\ code = 409 =>
                        /\ Raises(outcome)
                        /\ outcome.raises = "AgentAlreadyExistsError"
                  /\ code = 400 =>
                        Raises(outcome) /\ outcome.raises = "ValidationError"
                  /\ (~IsSuccess(code) /\ code \notin {400, 404, 409}) =>
                        /\ Raises(outcome)
                        /\ outcome.raises = "RegistryError"
                        /\ outcome.status_code = code
                  /\ IsSuccess(code) <=> ~Raises(outcome)
                  /\ IsSuccess(code) =>
                        outcome.returns = Decode(client.exchange.response)

\* C25: a semantic_search call that fails, on a status that is not a
\* success or on a body that is not a well-formed search response, raises
\* SemanticSearchError; a call that succeeds returns the hits of the
\* response, as many and in the same order.
C25_SearchFailureIsSemanticSearchError ==
    (ClientResponded /\ client.method = "semantic_search") =>
        LET response == client.exchange.response
            outcome == client.outcome
            wellFormed == ValidSearchResponse(Decode(response))
        IN  /\ Raises(outcome) => outcome.raises = "SemanticSearchError"
            /\ Raises(outcome) <=>
                  (~IsSuccess(response.status_code) \/ ~wellFormed)
            /\ ~Raises(outcome) =>
                  /\ Len(outcome.returns) = Len(response.body.value.results)
                  /\ \A k \in 1..Len(outcome.returns) :
                        /\ outcome.returns[k].agent_id
                              = response.body.value.results[k].agent_id
                        /\ outcome.returns[k].similarity_score
                              = response.body.value.results[k].similarity_score
                        /\ outcome.returns[k].matched_on
                              = response.body.value.results[k].matched_on


(***************************************************************************)
(* index_all beside index_one.                                             *)
(***************************************************************************)
\* The entry r holds what the handlers compute from the card and tags of
\* agent.
ComputedFrom(r, agent) ==
    /\ r.agent_id = agent.agent_id
    /\ r.embedding = EmbedAgent(agent.agent_card, agent.tags)
    /\ r.text_content = TextContent(agent.agent_card, agent.tags)

\* An index_all run has returned without a failure, and no agent was
\* registered or deleted while it ran.
CleanRun ==
    /\ IndexAllOK
    /\ resp.failed_count = 0
    /\ ~resp.overlap.dir_changed

\* C27, as stated: after an index_all run that returns failed_count == 0,
\* with no directory change during the run, the agent_ids with an entry are
\* the agent_ids of the directory, and each entry was computed from the card
\* and tags in the snapshot.
C27_RunLeavesSnapshotEntries ==
    CleanRun =>
        /\ {r.agent_id : r \in rows} = DirIds(directory)
        /\ \A r \in rows :
              \E k \in 1..Len(resp.snapshot) : ComputedFrom(r, resp.snapshot[k])

\* C27, amended: after such a run the agent_ids with an entry are the
\* agent_ids of the directory, and each entry was computed from the card and
\* tags in the snapshot unless an index_one call wrote that agent's entry
\* after the run's own write for it, in which case the entry is the one that
\* call wrote.
C27_RunLeavesSnapshotOrLaterEntries ==
    CleanRun =>
        /\ {r.agent_id : r \in rows} = DirIds(directory)
        /\ \A r \in rows :
              \E k \in 1..Len(resp.snapshot) :
                 /\ resp.snapshot[k].agent_id = r.agent_id
                 /\ \/ /\ ComputedFrom(r, resp.snapshot[k])
                       /\ r.updated_at = resp.log[k].at
                    \/ \E w \in resp.overlap.writes :
                          /\ w.agent_id = r.agent_id
                          /\ w.at > resp.log[k].at
                          /\ r.embedding = w.embedding
                          /\ r.text_content = w.text_content
                          /\ r.updated_at = w.at

\* A run over two agents has returned clean; index_one wrote the entry of one
\* of them from another card after the run's write, and the entry of the
\* other is the run's.
C27_Witness ==
    /\ CleanRun
    /\ Len(resp.snapshot) = 2
    /\ \E r \in rows : \E k \in 1..2 :
          /\ resp.snapshot[k].agent_id = r.agent_id
          /\ ~ComputedFrom(r, resp.snapshot[k])
          /\ r.updated_at > resp.log[k].at
    /\ \E r \in rows : \E k \in 1..2 :
          /\ ComputedFrom(r, resp.snapshot[k])
          /\ r.updated_at = resp.log[k].at


\* The write w is the last one index_one made for its agent during the run.
LastDuring(w) ==
    \A v \in resp.overlap.writes : v.agent_id = w.agent_id => v.at <= w.at

\* The run's own write for the agent of w came after w: the positions of the
\* snapshot where it did.
RunWroteAfter(w) ==
    {k \in 1..Len(resp.log) : /\ resp.log[k].agent_id = w.agent_id
                              /\ resp.log[k].ok
                              /\ resp.log[k].at > w.at}

\* C29, as stated: an index_all run never replaces an entry that was written
\* after the run took its snapshot with data computed from that older
\* snapshot: when index_one has written agent A's entry while index_all was
\* running, then after both have finished A's entry is the one index_one
\* computed.
C29_RunKeepsNewerEntries ==
    IndexAllOK =>
        \A w \in resp.overlap.writes : \A r \in rows :
            (LastDuring(w) /\ r.agent_id = w.agent_id) =>
                /\ r.embedding = w.embedding
                /\ r.text_content = w.text_content

\* C29, amended: the last write wins.  When index_one has written agent A's
\* entry while index_all was running, then after both have finished A's entry
\* is the one index_one computed if the run had already written A's entry
\* (or writes none), and the one computed from the snapshot if the run wrote
\* A's entry afterwards.
C29_LastWriteWinsInRun ==
    IndexAllOK =>
        \A w \in resp.overlap.writes : \A r \in rows :
            (LastDuring(w) /\ r.agent_id = w.agent_id) =>
                /\ \A k \in RunWroteAfter(w) :
                      /\ ComputedFrom(r, resp.snapshot[k])
                      /\ r.updated_at = resp.log[k].at
                /\ RunWroteAfter(w) = {} =>
                      /\ r.embedding = w.embedding
                      /\ r.text_content = w.text_content
                      /\ r.updated_at = w.at

\* index_one wrote an agent's entry from another card during the run, the run
\* reached that agent afterwards, and the entry is the snapshot's again.
C29_Witness ==
    /\ IndexAllOK
    /\ \E w \in resp.overlap.writes : \E k \in RunWroteAfter(w) :
          /\ w.embedding # EmbedAgent(resp.snapshot[k].agent_card,
                                      resp.snapshot[k].tags)
          /\ \E r \in rows : /\ ComputedFrom(r, resp.snapshot[k])
                             /\ r.updated_at = resp.log[k].at

=============================================================================
